---------------------------- MODULE Spec2Model ----------------------------
(***************************************************************************)
(* A model of ranger-recorder-rs: the bark recorder (src/main.rs) and the  *)
(* bark viewer (src/bin/viewer.rs): its scan, its window and time axis,    *)
(* its playback and its loudness summary.                                  *)
(*                                                                         *)
(* Units.  Monotonic and wall-clock time are whole seconds.  A sample is   *)
(* an integer number of hundredths (6 stands for the f32 value 0.06), so   *)
(* THRESHOLD, 0.05 in the source, is 5.  A file name is a sequence of      *)
(* one-character strings.  Option<T> is a sequence: None is << >> and      *)
(* Some(x) is <<x>>.                                                       *)
(***************************************************************************)
EXTENDS Integers, Sequences, FiniteSets, TLC

None == << >>
Some(x) == <<x>>

(***************************************************************************)
(* Integer helpers.                                                        *)
(***************************************************************************)
Abs(x) == IF x < 0 THEN -x ELSE x

\* Rust's integer division and `as` casts from float truncate toward zero.
TruncDiv(a, b) == IF a >= 0 THEN a \div b ELSE -((-a) \div b)

(***************************************************************************)
(* The proleptic Gregorian calendar, as chrono's NaiveDate keeps it.       *)
(* A NaiveDateTime is a record of fields; Secs counts its seconds from     *)
(* 1970-01-01 00:00:00 and FromSecs is the inverse.                        *)
(***************************************************************************)
IsLeap(y) == (y % 4 = 0 /\ y % 100 # 0) \/ y % 400 = 0

DaysInMonth(y, m) ==
    IF m = 2 THEN (IF IsLeap(y) THEN 29 ELSE 28)
    ELSE IF m \in {4, 6, 9, 11} THEN 30 ELSE 31

DaysFromCivil(y, m, d) ==
    LET yy  == IF m <= 2 THEN y - 1 ELSE y
        era == yy \div 400
        yoe == yy - era * 400
        mp  == (m + 9) % 12
        doy == (153 * mp + 2) \div 5 + d - 1
        doe == yoe * 365 + yoe \div 4 - yoe \div 100 + doy
    IN  era * 146097 + doe - 719468

CivilFromDays(z0) ==
    LET z   == z0 + 719468
        era == z \div 146097
        doe == z - era * 146097
        yoe == (doe - doe \div 1460 + doe \div 36524 - doe \div 146096) \div 365
        doy == doe - (365 * yoe + yoe \div 4 - yoe \div 100)
        mp  == (5 * doy + 2) \div 153
        d   == doy - (153 * mp + 2) \div 5 + 1
        m   == IF mp < 10 THEN mp + 3 ELSE mp - 9
        y   == yoe + era * 400 + (IF m <= 2 THEN 1 ELSE 0)
    IN  [year |-> y, month |-> m, day |-> d]

Naive(y, mo, d, h, mi, s) ==
    [year |-> y, month |-> mo, day |-> d, hour |-> h, minute |-> mi, second |-> s]

Secs(n) ==
    DaysFromCivil(n.year, n.month, n.day) * 86400
        + n.hour * 3600 + n.minute * 60 + n.second

FromSecs(t) ==
    LET days == t \div 86400
        rem  == t % 86400
        c    == CivilFromDays(days)
    IN  Naive(c.year, c.month, c.day, rem \div 3600, (rem % 3600) \div 60, rem % 60)

(***************************************************************************)
(* chrono::Local: the time zone of the machine.  A DateTime<Local> is an   *)
(* instant, counted in seconds of UTC; its offset follows from the zone.   *)
(* Two zones are modelled: one with a fixed offset, and one with the       *)
(* daylight-saving rule of US/Eastern in 2024 (clocks go from 02:00 to     *)
(* 03:00 on 10 March and from 02:00 back to 01:00 on 3 November).          *)
(***************************************************************************)
Zones == {"UTC", "US/Eastern"}

Hour == 60 * 60

DstStart == Secs(Naive(2024, 3, 10, 7, 0, 0))
DstEnd   == Secs(Naive(2024, 11, 3, 6, 0, 0))

ZoneOffsets(zone) == IF zone = "UTC" THEN {0} ELSE {-5 * Hour, -4 * Hour}

\* TimeZone::offset_from_utc_datetime
UtcOffset(zone, utc) ==
    IF zone = "UTC" THEN 0
    ELSE IF DstStart <= utc /\ utc < DstEnd THEN -4 * Hour ELSE -5 * Hour

\* DateTime<Local>::naive_local
NaiveLocal(zone, utc) == FromSecs(utc + UtcOffset(zone, utc))

\* The instants whose local time in `zone` reads `naive`.
LocalCandidates(zone, naive) ==
    {u \in {Secs(naive) - o : o \in ZoneOffsets(zone)} :
        u + UtcOffset(zone, u) = Secs(naive)}

\* TimeZone::from_local_datetime: LocalResult::None, Single(t) or
\* Ambiguous(earliest, latest).
from_local_datetime(zone, naive) ==
    LET c == LocalCandidates(zone, naive)
    IN  IF c = {} THEN [kind |-> "None", at |-> {}]
        ELSE IF Cardinality(c) = 1 THEN [kind |-> "Single", at |-> c]
        ELSE [kind |-> "Ambiguous", at |-> c]

(***************************************************************************)
(* Text.  A string is a sequence of one-character strings.                 *)
(***************************************************************************)
DigitChars == <<"0", "1", "2", "3", "4", "5", "6", "7", "8", "9">>

Digit(n) == DigitChars[n + 1]

IsDigit(c) == \E i \in 1..10 : DigitChars[i] = c

DigitVal(c) == (CHOOSE i \in 1..10 : DigitChars[i] = c) - 1

Pad2(n) == <<Digit((n \div 10) % 10), Digit(n % 10)>>

Pad4(n) == <<Digit((n \div 1000) % 10), Digit((n \div 100) % 10)>> \o Pad2(n % 100)

StartsWith(s, p) == Len(s) >= Len(p) /\ SubSeq(s, 1, Len(p)) = p

EndsWith(s, p) == Len(s) >= Len(p) /\ SubSeq(s, Len(s) - Len(p) + 1, Len(s)) = p

Drop(s, n) == SubSeq(s, n + 1, Len(s))

bark_ == <<"b", "a", "r", "k", "_">>

dot_wav == <<".", "w", "a", "v">>

wav == <<"w", "a", "v">>

(***************************************************************************)
(* The recorder's side of the codec: format("%Y%m%d_%I_%M_%S_%P") of the   *)
(* local time, wrapped in "bark_" and ".wav" (main.rs 39-40).  Years are   *)
(* the four-digit ones.                                                    *)
(***************************************************************************)
\* %I: the hour on the 12-hour clock, 12 for midnight and noon.
Hour12(h) == IF h % 12 = 0 THEN 12 ELSE h % 12

\* %P: the lower-case marker.
AmPm(h) == IF h < 12 THEN <<"a", "m">> ELSE <<"p", "m">>

FormatTimestamp(n) ==
    Pad4(n.year) \o Pad2(n.month) \o Pad2(n.day) \o <<"_">>
        \o Pad2(Hour12(n.hour)) \o <<"_">> \o Pad2(n.minute) \o <<"_">>
        \o Pad2(n.second) \o <<"_">> \o AmPm(n.hour)

\* The file name of main.rs line 40, without the directory.
filename(zone, utc) == bark_ \o FormatTimestamp(NaiveLocal(zone, utc)) \o dot_wav

(***************************************************************************)
(* The viewer's side: NaiveDateTime::parse_from_str with the same format   *)
(* (viewer.rs 96-99).  chrono reads a numeric field as one to `width`      *)
(* leading digits, a literal as itself and %P as "am" or "pm" in either    *)
(* case; text left over is an error, and so is a field out of range.  The  *)
(* strings modelled hold no sign and no white space, and no second 60.     *)
(***************************************************************************)
Min(a, b) == IF a < b THEN a ELSE b

\* The number of leading digits of s, at most `width`.
LeadingDigits(s, width) ==
    LET ks == {k \in 0..Min(width, Len(s)) : \A i \in 1..k : IsDigit(s[i])}
    IN  CHOOSE k \in ks : \A j \in ks : j <= k

RECURSIVE DigitsValue(_)
DigitsValue(s) ==
    IF s = << >> THEN 0
    ELSE 10 * DigitsValue(SubSeq(s, 1, Len(s) - 1)) + DigitVal(s[Len(s)])

Failed == [ok |-> FALSE, val |-> 0, rest |-> << >>]

\* scan::number(s, 1, width)
ScanNumber(p, width) ==
    IF ~p.ok THEN Failed
    ELSE LET k == LeadingDigits(p.rest, width)
         IN  IF k = 0 THEN Failed
             ELSE [ok |-> TRUE, val |-> DigitsValue(SubSeq(p.rest, 1, k)),
                   rest |-> Drop(p.rest, k)]

\* Item::Literal
ScanLiteral(p, lit) ==
    IF p.ok /\ StartsWith(p.rest, lit)
    THEN [ok |-> TRUE, val |-> 0, rest |-> Drop(p.rest, Len(lit))]
    ELSE Failed

Lower(c) == IF c = "A" THEN "a" ELSE IF c = "P" THEN "p" ELSE IF c = "M" THEN "m" ELSE c

\* Fixed::LowerAmPm: val is 0 for am and 1 for pm.
ScanAmPm(p) ==
    IF p.ok /\ Len(p.rest) >= 2 /\ Lower(p.rest[2]) = "m"
            /\ Lower(p.rest[1]) \in {"a", "p"}
    THEN [ok |-> TRUE, val |-> IF Lower(p.rest[1]) = "p" THEN 1 ELSE 0,
          rest |-> Drop(p.rest, 2)]
    ELSE Failed

\* NaiveDateTime::parse_from_str(s, "%Y%m%d_%I_%M_%S_%P"): Some(naive) for
\* Ok(naive) and None for Err.
parse_from_str(s) ==
    LET y   == ScanNumber([ok |-> TRUE, val |-> 0, rest |-> s], 4)
        mo  == ScanNumber(y, 2)
        d   == ScanNumber(mo, 2)
        h   == ScanNumber(ScanLiteral(d, <<"_">>), 2)
        mi  == ScanNumber(ScanLiteral(h, <<"_">>), 2)
        sec == ScanNumber(ScanLiteral(mi, <<"_">>), 2)
        ap  == ScanAmPm(ScanLiteral(sec, <<"_">>))
    IN  IF /\ ap.ok
           /\ ap.rest = << >>
           /\ mo.val \in 1..12
           /\ d.val \in 1..DaysInMonth(y.val, mo.val)
           /\ h.val \in 1..12
           /\ mi.val \in 0..59
           /\ sec.val \in 0..59
        THEN Some(Naive(y.val, mo.val, d.val, (h.val % 12) + 12 * ap.val,
                        mi.val, sec.val))
        ELSE None

\* viewer.rs 96-107 for a file name that starts with "bark_" and ends with
\* ".wav": the name is skipped when it does not parse, the scan panics
\* when the local time does not exist or exists twice (LocalResult::unwrap),
\* and the timestamp is kept otherwise.
DecodeName(zone, name) ==
    LET stem == SubSeq(name, Len(bark_) + 1, Len(name) - Len(dot_wav))
        p    == parse_from_str(stem)
    IN  IF p = None THEN [kind |-> "skip", at |-> {}]
        ELSE LET r == from_local_datetime(zone, p[1])
             IN  IF r.kind = "Single" THEN [kind |-> "ok", at |-> r.at]
                 ELSE [kind |-> "panic", at |-> {}]

(***************************************************************************)
(* The recorder, src/main.rs.                                              *)
(***************************************************************************)
\* const THRESHOLD: f32 = 0.05, in hundredths.
THRESHOLD == 5

\* const MIN_BARK_DURATION: Duration = Duration::from_secs(5)
MIN_BARK_DURATION == 5

\* i16::MAX
I16_MAX == 32767

I16_MIN == -32768

\* config.sample_rate().0: the device's rate.  One sample a second keeps
\* samples_per_chunk, five seconds of samples, at five.
sample_rate == 1

\* (sample_rate as f32 * MIN_BARK_DURATION.as_secs_f32()) as usize
samples_per_chunk == sample_rate * MIN_BARK_DURATION

\* data.iter().map(|x| x.abs()).fold(0.0, f32::max)
RECURSIVE max_amplitude(_)
max_amplitude(data) ==
    IF data = << >> THEN 0
    ELSE LET m == max_amplitude(SubSeq(data, 1, Len(data) - 1))
             a == Abs(data[Len(data)])
         IN  IF a > m THEN a ELSE m

\* A slip of line 32: >= for >.
is_loud_at_threshold(data) == max_amplitude(data) >= THRESHOLD

\* max_amplitude > THRESHOLD (line 32)
is_loud(data) == max_amplitude(data) > THRESHOLD

\* A slip of line 63: >= for >.
timed_out_at_timeout(last, now) == now - last >= MIN_BARK_DURATION

\* last_bark.unwrap().elapsed() > MIN_BARK_DURATION (line 63).  The model
\* takes the callback's two readings of the monotonic clock, Instant::now()
\* of line 30 and the one inside elapsed(), at the same instant.
timed_out(last, now) == now - last > MIN_BARK_DURATION

\* (sample * i16::MAX as f32) as i16: the product truncated toward zero
\* and saturated to the range of i16.
scaled_sample(sample) ==
    LET v == TruncDiv(sample * I16_MAX, 100)
    IN  IF v > I16_MAX THEN I16_MAX ELSE IF v < I16_MIN THEN I16_MIN ELSE v

\* data.iter().take(samples_per_chunk)
take(data, n) == SubSeq(data, 1, Min(Len(data), n))

\* The samples lines 57-60 hand to write_sample for one chunk.
chunk_samples(data) ==
    LET t == take(data, samples_per_chunk)
    IN  [i \in 1..Len(t) |-> scaled_sample(t[i])]

\* Line 65 left out: the writer stays open.
writer_kept(w) == w

\* writer = None of line 65 (the WavWriter is dropped, which closes the file).
writer_after_stop(w) == None

\* Lines 50-51 outside the amplitude test: every chunk resets the timer.
last_bark_any_chunk(loud, last, now) == Some(now)

\* Line 35 left out: a start does not set the timer.
last_bark_not_set(loud, last, now) == last

\* *last_bark after lines 32-53.
last_bark_after(loud, last, now) == IF loud THEN Some(now) ELSE last

(***************************************************************************)
(* The viewer's scan, BarkViewer::new (viewer.rs 57-114): its operators.   *)
(***************************************************************************)
\* "bark_20240101_01_00_00_am.wav": 01:00:00 on 1 January 2024, as the recorder writes it.
name_0100am ==
    <<"b", "a", "r", "k", "_", "2", "0", "2", "4", "0", "1", "0", "1", "_",
      "0", "1", "_", "0", "0", "_", "0", "0", "_", "a", "m", ".", "w", "a",
      "v">>

\* "bark_20240101_1_00_00_am.wav": the same second with a one-digit hour, which chrono also reads.
name_100am ==
    <<"b", "a", "r", "k", "_", "2", "0", "2", "4", "0", "1", "0", "1", "_",
      "1", "_", "0", "0", "_", "0", "0", "_", "a", "m", ".", "w", "a", "v">>

\* "bark_20231231_11_59_59_pm.wav": the last second of 2023.
name_1159pm ==
    <<"b", "a", "r", "k", "_", "2", "0", "2", "3", "1", "2", "3", "1", "_",
      "1", "1", "_", "5", "9", "_", "5", "9", "_", "p", "m", ".", "w", "a",
      "v">>

\* "bark_20240101_12_30_00_pm.wav": half past noon on 1 January 2024.
name_1230pm ==
    <<"b", "a", "r", "k", "_", "2", "0", "2", "4", "0", "1", "0", "1", "_",
      "1", "2", "_", "3", "0", "_", "0", "0", "_", "p", "m", ".", "w", "a",
      "v">>

\* "bark_not_a_date.wav": no timestamp.
name_not_a_date ==
    <<"b", "a", "r", "k", "_", "n", "o", "t", "_", "a", "_", "d", "a", "t",
      "e", ".", "w", "a", "v">>

\* "notabark_20240101_1_00_00_am.wav": the wrong prefix.
name_notabark ==
    <<"n", "o", "t", "a", "b", "a", "r", "k", "_", "2", "0", "2", "4", "0",
      "1", "0", "1", "_", "1", "_", "0", "0", "_", "0", "0", "_", "a", "m",
      ".", "w", "a", "v">>

\* "bark_20240230_01_00_00_am.wav": a day that is not in the calendar.
name_feb30 ==
    <<"b", "a", "r", "k", "_", "2", "0", "2", "4", "0", "2", "3", "0", "_",
      "0", "1", "_", "0", "0", "_", "0", "0", "_", "a", "m", ".", "w", "a",
      "v">>

\* "bark_20240310_02_30_00_am.wav": a time US/Eastern skips.
name_gap ==
    <<"b", "a", "r", "k", "_", "2", "0", "2", "4", "0", "3", "1", "0", "_",
      "0", "2", "_", "3", "0", "_", "0", "0", "_", "a", "m", ".", "w", "a",
      "v">>

\* "bark_20241103_01_30_00_am.wav": a time US/Eastern has twice.
name_overlap ==
    <<"b", "a", "r", "k", "_", "2", "0", "2", "4", "1", "1", "0", "3", "_",
      "0", "1", "_", "3", "0", "_", "0", "0", "_", "a", "m", ".", "w", "a",
      "v">>

\* "bark_20240101_01_00_00_am.txt": the wrong extension.
name_txt ==
    <<"b", "a", "r", "k", "_", "2", "0", "2", "4", "0", "1", "0", "1", "_",
      "0", "1", "_", "0", "0", "_", "0", "0", "_", "a", "m", ".", "t", "x",
      "t">>

\* Path::extension of a file name: what follows its last dot, if the name
\* has a dot that is not its first character.
extension(name) ==
    LET dots == {i \in 2..Len(name) : name[i] = "."}
    IN  IF dots = {} THEN None
        ELSE LET last == CHOOSE i \in dots : \A j \in dots : j <= i
             IN  Some(Drop(name, last))

\* A directory entry WalkDir yields: the folder it is in, its file name,
\* and whether hound::WavReader::open reads its payload.
Entry(folder, name, readable) ==
    [folder |-> folder, name |-> name, readable |-> readable]

Recording(e, timestamp) == [timestamp |-> timestamp, path |-> <<e.folder, e.name>>]

\* Lines 63-107 on one entry: what the loop does with it.
Visit(zone, e) ==
    IF extension(e.name) # Some(wav) THEN [kind |-> "skip", at |-> {}]
    ELSE IF ~StartsWith(e.name, bark_) THEN [kind |-> "skip", at |-> {}]
    ELSE IF ~e.readable THEN [kind |-> "skip", at |-> {}]
    ELSE DecodeName(zone, e.name)

\* The files a barks directory is made of.
Candidates ==
    { Entry("barks", name_0100am, TRUE),
      Entry("barks/old", name_0100am, TRUE),
      Entry("barks", name_100am, TRUE),
      Entry("barks", name_1159pm, TRUE),
      Entry("barks", name_1230pm, FALSE),
      Entry("barks", name_not_a_date, TRUE),
      Entry("barks", name_notabark, TRUE),
      Entry("barks", name_feb30, TRUE),
      Entry("barks", name_gap, TRUE),
      Entry("barks", name_overlap, TRUE),
      Entry("barks", name_txt, TRUE) }

\* Visit, worked out once for every zone and file.
Visits == [zone \in Zones, e \in Candidates |-> Visit(zone, e)]

\* The files in the directory at most.
MaxFiles == 3

Directories == {d \in SUBSET Candidates : Cardinality(d) <= MaxFiles}

\* The orders in which WalkDir may yield the entries of d.
Listings(d) ==
    {l \in [1..Cardinality(d) -> d] : \A i, j \in 1..Cardinality(d) : l[i] = l[j] => i = j}

\* The loop of lines 60-111 from the i-th entry of a listing on, with
\* `recs` pushed so far: the recordings pushed in the end, and the entry
\* on which the loop panicked, if it did.
RECURSIVE ScanFrom(_, _, _, _)
ScanFrom(zone, listing, i, recs) ==
    IF i > Len(listing) THEN [recs |-> recs, panic_at |-> None]
    ELSE LET v == Visits[zone, listing[i]]
         IN  IF v.kind = "panic" THEN [recs |-> recs, panic_at |-> Some(listing[i])]
             ELSE IF v.kind = "skip" THEN ScanFrom(zone, listing, i + 1, recs)
             ELSE ScanFrom(zone, listing, i + 1,
                           Append(recs, Recording(listing[i], CHOOSE t \in v.at : TRUE)))

ScanLoop(zone, listing) == ScanFrom(zone, listing, 1, << >>)

\* r put into a sorted sequence behind every element whose key is not greater.
InsertByKey(sorted, r) ==
    LET k == Cardinality({i \in 1..Len(sorted) : sorted[i].timestamp <= r.timestamp})
    IN  SubSeq(sorted, 1, k) \o <<r>> \o SubSeq(sorted, k + 1, Len(sorted))

\* sort_by_key followed by dedup_by_key: one recording a timestamp.
RECURSIVE sort_merging_equal(_)
sort_merging_equal(recs) ==
    IF recs = << >> THEN << >>
    ELSE LET r == recs[Len(recs)]
             s == sort_merging_equal(SubSeq(recs, 1, Len(recs) - 1))
         IN  IF \E i \in 1..Len(s) : s[i].timestamp = r.timestamp THEN s
             ELSE InsertByKey(s, r)

\* recordings.sort_by_key(|r| r.timestamp) (line 114): a stable sort.
RECURSIVE sort_by_key(_)
sort_by_key(recs) ==
    IF recs = << >> THEN << >>
    ELSE InsertByKey(sort_by_key(SubSeq(recs, 1, Len(recs) - 1)), recs[Len(recs)])

(***************************************************************************)
(* The viewer's window, BarkViewer::update.  timeline_start and            *)
(* timeline_end are DateTime<Local> values: chrono keeps nanoseconds, and  *)
(* the only fractions the viewer's arithmetic makes are halves of a        *)
(* second (new_duration / 2), so a DateTime is a number of seconds of UTC  *)
(* and a number of half seconds, 0 or 1.  Local::now() is read on a whole  *)
(* second.  A position or a scroll amount relative to the width of the     *)
(* painter is a number of quarters.                                        *)
(***************************************************************************)
DateTime(secs, half) == [secs |-> secs, half |-> half]

AtSecond(secs) == DateTime(secs, 0)

\* DateTime::timestamp(): the whole seconds.
timestamp(t) == t.secs

\* t + n half seconds
PlusHalves(t, n) ==
    LET total == t.half + n
    IN  DateTime(t.secs + total \div 2, total % 2)

PlusSeconds(t, s) == DateTime(t.secs + s, t.half)

\* a < b on DateTime
Before(a, b) == a.secs < b.secs \/ (a.secs = b.secs /\ a.half < b.half)

\* b - a in half seconds
HalvesBetween(a, b) == 2 * (b.secs - a.secs) + b.half - a.half

Window(start, end) == [start |-> start, end |-> end]

\* DateTime<Local>::date_naive
date_naive(zone, utc) ==
    LET n == NaiveLocal(zone, utc)
    IN  <<n.year, n.month, n.day>>

\* today_start of lines 118-120, before its unwrap.
today_start(zone, now) ==
    LET d == date_naive(zone, now)
    IN  from_local_datetime(zone, Naive(d[1], d[2], d[3], 0, 0, 0))

\* timeline_start and timeline_end of lines 123-127.
initial_timeline(zone, recs, now) ==
    LET today == {i \in 1..Len(recs) :
                     date_naive(zone, recs[i].timestamp) = date_naive(zone, now)}
        first == CHOOSE i \in today : \A j \in today : i <= j
    IN  Window(IF today # {}
               THEN AtSecond(recs[first].timestamp - 20 * 60)
               ELSE AtSecond(CHOOSE t \in today_start(zone, now).at : TRUE),
               AtSecond(now))

\* "Reset View", lines 169-174
reset_view(recs, now) ==
    Window(IF recs # << >>
           THEN AtSecond(recs[1].timestamp - 5 * 60)
           ELSE AtSecond(now - 24 * Hour),
           AtSecond(now))

\* "Last Hour", "Last 24 Hours", "Last Week" (lines 175-189): the window
\* of `hours` hours that ends now.
last_hours(hours, now) == Window(AtSecond(now - hours * Hour), AtSecond(now))

\* zoom_factor of line 213, as a fraction: 1.25 or 0.8.
zoom_factor(scroll_delta) == IF scroll_delta > 0 THEN <<5, 4>> ELSE <<4, 5>>

\* Ctrl+scroll, lines 212-224.  `zoom_center as i64` is the whole part of
\* zoom_center, and the f32 product of line 220 is exact for the windows
\* of the model.
scroll_zoom(start, end, scroll_delta, zoom_center) ==
    LET width        == timestamp(end) - timestamp(start)
        center_time  == PlusSeconds(start,
                            TruncDiv(width * TruncDiv(zoom_center, 4), 100))
        f            == zoom_factor(scroll_delta)
        new_duration == TruncDiv(width * f[1], f[2])
    IN  Window(PlusHalves(center_time, -new_duration),
               PlusHalves(center_time, new_duration))

\* duration of line 235: (-delta_time) as i64, where
\* delta_time = (total_delta / rect.width()) * time_width.
pan_duration(start, end, total_delta) ==
    LET time_width == timestamp(end) - timestamp(start)
    IN  TruncDiv(-(total_delta * time_width), 4)

\* A pan that stops at the present time.
pan_end_clamped(end, duration, now) ==
    IF Before(AtSecond(now), PlusSeconds(end, duration)) THEN AtSecond(now)
    ELSE PlusSeconds(end, duration)

\* self.timeline_end += duration (line 237)
pan_end(end, duration, now) == PlusSeconds(end, duration)

\* Pan, lines 233-237
pan(start, end, total_delta, now) ==
    LET duration == pan_duration(start, end, total_delta)
    IN  Window(PlusSeconds(start, duration), pan_end(end, duration, now))

\* The zoom slider moved to the value that stands for new_duration
\* seconds, lines 431-436.
slider_zoom(start, end, new_duration) ==
    LET duration          == timestamp(end) - timestamp(start)
        center_time       == timestamp(start) + TruncDiv(duration, 2)
        half_new_duration == TruncDiv(new_duration, 2)
    IN  Window(AtSecond(center_time - half_new_duration),
               AtSecond(center_time + half_new_duration))

(***************************************************************************)
(* The time axis, lines 297-345.  rect.width() is a whole number of        *)
(* pixels.                                                                 *)
(***************************************************************************)
\* min_pixels_per_label (line 302)
MIN_PIXELS_PER_LABEL == 80

\* max_labels (line 303)
max_labels(width) == width \div MIN_PIXELS_PER_LABEL

\* The least integer not below a / b, for b > 0.
CeilDiv(a, b) == -((-a) \div b)

Max(a, b) == IF a > b THEN a ELSE b

\* interval_mins of lines 306-310 for a window of `duration` seconds: the
\* set of its outcomes.  With max_labels = 0 the f64 quotient of line 307
\* is +infinity for a positive duration, NaN for 0 and -infinity for a
\* negative one, which `as i64` turns into i64::MAX, 0 and i64::MIN.
\* raw_interval + 14 then overflows for i64::MAX: a build with overflow
\* checks panics, and one without wraps to i64::MIN + 13, which makes the
\* interval -9223372036854775785; no integer of the model is that large,
\* and the outcome "wrapped" stands for it, with -15 as its number.
interval_mins(duration, width) ==
    IF max_labels(width) = 0 /\ duration > 0
    THEN {[kind |-> "panic", mins |-> 0], [kind |-> "wrapped", mins |-> -15]}
    ELSE LET raw_interval ==
                 IF max_labels(width) = 0 THEN 15
                 ELSE Max(CeilDiv(duration, 60 * max_labels(width)), 15)
         IN  {[kind |-> "ok", mins |-> TruncDiv(raw_interval + 14, 15) * 15]}

\* Line 323 for the marker of minute `mins`: x is within the painter.
\* progress is infinite or NaN when both bounds are in one second, and no
\* comparison of line 323 holds then.
within_bounds(start, end, mins) ==
    LET num == mins * 60 - timestamp(start)
        den == timestamp(end) - timestamp(start)
    IN  \/ den > 0 /\ 0 <= num /\ num <= den
        \/ den < 0 /\ den <= num /\ num <= 0

\* The minutes of the markers the loop of lines 317-345 draws.
time_markers(start, end, interval) ==
    LET start_mins == TruncDiv(TruncDiv(timestamp(start), 60), interval) * interval
        end_mins   == TruncDiv(timestamp(end), 60)
        steps      == IF end_mins < start_mins THEN {}
                      ELSE 0..((end_mins - start_mins) \div interval)
    IN  {m \in {start_mins + k * interval : k \in steps} :
            within_bounds(start, end, m)}

\* What one frame draws of the axis: every outcome of lines 297-345.  The
\* wrapped interval is longer than the time since 1970, so the one minute
\* its loop visits is minute 0, which is not within the window.
draw_axis(w, width) ==
    {[kind     |-> i.kind,
      interval |-> i.mins,
      markers  |-> IF i.kind = "ok" THEN time_markers(w.start, w.end, i.mins)
                   ELSE {}] :
        i \in interval_mins(timestamp(w.end) - timestamp(w.start), width)}

(***************************************************************************)
(* Playback, play_audio (lines 139-159) and the Stop button (471-476).  A  *)
(* rodio Sink is a record of its number and the path it plays; `sounding`  *)
(* is the set of sinks that are making sound.                              *)
(***************************************************************************)
Sink(id, path) == [id |-> id, path |-> path]

\* Lines 141-143 left out.
not_stopped_first(playing, current) == playing

\* Lines 141-143: sink.stop() on the sink current_playback holds.
stopped_first(playing, current) ==
    IF current = None THEN playing ELSE playing \ {current[1]}

\* How lines 146-150 end: with a sink that plays, or at the call that
\* returned Err.  Sink::try_new(..).unwrap() panics on its Err.
PlayOutcomes ==
    {"ok", "OutputStream::try_default", "File::open", "Decoder::new", "Sink::try_new"}

(***************************************************************************)
(* The loudness summary, lines 72-94 and Recording::analyze_audio (29-52). *)
(* A payload is the sequence of the i16 samples that decode.  An amplitude *)
(* |s as f32 / i16::MAX as f32| is kept as its numerator |s|: the          *)
(* amplitude is |s| / 32767, the f32 quotients are in the order of their   *)
(* numerators, and the amplitude is above 1.0 exactly when |s| > 32767.    *)
(***************************************************************************)
\* Lines 75-76 (33-34) for one sample.
amplitude(s) == Abs(s)

\* a put into an ascending sequence.
InsertAscending(sorted, a) ==
    LET k == Cardinality({i \in 1..Len(sorted) : sorted[i] <= a})
    IN  SubSeq(sorted, 1, k) \o <<a>> \o SubSeq(sorted, k + 1, Len(sorted))

\* Line 81 left out: the samples in the order of the file.
not_sorted(amps) == amps

\* sorted.sort_by(|a, b| a.partial_cmp(b).unwrap()) (lines 81, 39)
RECURSIVE sorted_amplitudes(_)
sorted_amplitudes(amps) ==
    IF amps = << >> THEN << >>
    ELSE InsertAscending(sorted_amplitudes(SubSeq(amps, 1, Len(amps) - 1)),
                         amps[Len(amps)])

\* The indices of lines 84-88 (42-46), counted from 0 as the source does.
quartile_indices(len) ==
    <<0, len \div 4, len \div 2, (3 * len) \div 4, len - 1>>

\* Lines 73-93: min, q1, median, q3, max of a payload, or None.
audio_stats(data) ==
    LET samples == [i \in 1..Len(data) |-> amplitude(data[i])]
    IN  IF samples = << >> THEN None
        ELSE LET sorted == sorted_amplitudes(samples)
                 at     == quartile_indices(Len(sorted))
             IN  Some([i \in 1..5 |-> sorted[at[i] + 1]])

\* Recording::analyze_audio, lines 29-52: the same summary, from a file
\* that is opened again.
analyze_audio(ok, data) ==
    IF ~ok THEN None
    ELSE LET samples == [i \in 1..Len(data) |-> amplitude(data[i])]
         IN  IF samples = << >> THEN None
             ELSE LET sorted == sorted_amplitudes(samples)
                      at     == quartile_indices(Len(sorted))
                  IN  Some([i \in 1..5 |-> sorted[at[i] + 1]])

(***************************************************************************)
(* The state.                                                              *)
(***************************************************************************)
VARIABLES
    tz,              \* the machine's time zone (chrono::Local)
    boot,            \* the wall clock, in seconds of UTC, when clock = 0
    clock,           \* the monotonic clock (Instant::now()), in seconds
    recording,       \* main.rs line 20
    last_bark_time,  \* main.rs line 21
    writer,          \* main.rs line 22: None or Some(name of the open file)
    files,           \* the files under barks/: name -> samples written
    panicked,        \* None, or Some(call) once the callback has panicked at `call`
    process,         \* "running", or "aborted" once a panic has ended the process
    starts,          \* history: the `now` of every callback that created a file
    \* history: what the run has done so far
    opened,          \* files opened (EventStart)
    closed,          \* files closed by the stop condition (EventEnd)
    last_loud,       \* None or Some(time of the latest above-threshold chunk)
    steady,          \* no loud chunk came later than the timeout after the one before
    chunk,           \* None or Some(the latest callback's data)
    io_error,        \* the storage call that returned Err in the latest callback
    \* the codec on its own
    stamp,      \* the DateTime<Local> encoded, an instant of UTC
    encoded,    \* None or Some(the file name made from stamp)
    decoded,    \* None or Some(what DecodeName makes of encoded)
    \* the conversion of a sample on its own
    input,      \* the f32 sample the callback was given, in hundredths
    stored,     \* None or Some(the i16 handed to write_sample for input)
    \* the viewer's scan
    exists,      \* whether the directory barks/ exists
    dir,         \* the files under barks/
    viewer,      \* "none", or how the latest BarkViewer::new ended: "ok", "panicked"
    recordings,  \* None or Some(self.recordings), once a scan has returned
    previous,    \* recordings as the scan before the latest left it
    panic_at,    \* None or Some(the entry on which the latest scan panicked)
    \* the viewer's window
    wall,            \* Local::now() of the viewer, in seconds of UTC
    rect_width,      \* rect.width() of the timeline's painter, in pixels
    timeline_start,  \* viewer.rs line 21
    timeline_end,    \* viewer.rs line 22
    axis,            \* None or Some(what the latest frame drew of the time axis)
    frames,          \* history: the frames shown so far
    op,              \* history: what the latest frame handled
    before,          \* history: the window the latest frame started with
    \* playback
    current_playback,  \* viewer.rs line 23: None or Some(sink)
    sounding,          \* the sinks that are making sound
    sinks,             \* history: the sinks made so far
    play_result,       \* history: how the latest play_audio ended
    \* the loudness summary
    payload,     \* the i16 samples of a file
    opens,       \* whether hound::WavReader::open opens the file
    summary,     \* None or Some(audio_stats of the payload)
    analysis     \* None or Some(analyze_audio of the file)

rvars == <<boot, clock, recording, last_bark_time, writer, files, panicked, process, starts,
           opened, closed, last_loud, steady, chunk, io_error>>

cvars == <<stamp, encoded, decoded, input, stored>>

svars == <<exists, dir, viewer, recordings, previous, panic_at>>

wvars == <<wall, rect_width, timeline_start, timeline_end, axis, frames, op, before>>

pvars == <<current_playback, sounding, sinks, play_result>>

avars == <<payload, opens, summary, analysis>>

\* the viewer past its scan
uvars == <<wvars, pvars, avars>>

vars == <<tz, rvars, cvars, svars, uvars>>

(***************************************************************************)
(* Bounds of the recorder's model.                                         *)
(***************************************************************************)
\* The monotonic clock stops here.
MaxTime == 10

\* The samples all event files together may hold.
MaxSamples == 5

\* A chunk one sample longer than samples_per_chunk, loud in its last sample only.
LongChunk == [i \in 1..(samples_per_chunk + 1) |-> IF i > samples_per_chunk THEN 6 ELSE 0]

\* The chunks the capture source delivers: an empty one, one at the
\* threshold, one loud below zero with a quiet tail, a long one.
Chunks == {<< >>, <<5>>, <<-6, 0>>, LongChunk}

\* The storage call that returns Err in a callback, if the callback gets to it.
Faults == {"none", "create_dir_all", "WavWriter::create", "write_sample"}

\* The wall clock at the start of the run: three seconds before US/Eastern
\* leaves daylight-saving time.
Boots == {DstEnd - 3}

TotalSamples ==
    LET names == DOMAIN files
        RECURSIVE Sum(_)
        Sum(S) == IF S = {} THEN 0
                  ELSE LET n == CHOOSE x \in S : TRUE
                       IN  Len(files[n]) + Sum(S \ {n})
    IN  Sum(names)

InitRecorder ==
    /\ tz = "US/Eastern"
    /\ boot \in Boots
    /\ clock = 0
    /\ recording = FALSE
    /\ last_bark_time = None
    /\ writer = None
    /\ files = << >>
    /\ panicked = None
    /\ process = "running"
    /\ starts = << >>
    /\ opened = 0
    /\ closed = 0
    /\ last_loud = None
    /\ steady = TRUE
    /\ chunk = None
    /\ io_error = "none"

\* The silence of the Silence step: an hour less the six seconds the
\* shortest event takes from its start to its end.
IdleSpan == Hour - (MIN_BARK_DURATION + 1)

\* Time passes between two callbacks.
Tick ==
    /\ clock % IdleSpan < MaxTime
    /\ clock' = clock + 1
    /\ UNCHANGED <<tz, boot, recording, last_bark_time, writer, files, panicked,
                   process, starts, opened, closed, last_loud, steady, chunk, io_error>>
    /\ UNCHANGED <<cvars, svars, uvars>>

\* A long silence between two events: IdleSpan seconds of chunks at or
\* below THRESHOLD while not recording, which lines 32 and 55 pass over,
\* so that only `now` has changed at the end of it.
Silence ==
    /\ ~recording
    /\ panicked = None
    /\ clock < IdleSpan
    /\ clock' = clock + IdleSpan
    /\ UNCHANGED <<tz, boot, recording, last_bark_time, writer, files, panicked,
                   process, starts, opened, closed, last_loud, steady, chunk, io_error>>
    /\ UNCHANGED <<cvars, svars, uvars>>

\* f with name mapped to v, whether or not name is in its domain.
Put(f, name, v) == [n \in DOMAIN f \cup {name} |-> IF n = name THEN v ELSE f[n]]

(***************************************************************************)
(* The input stream callback, main.rs 26-69, on one chunk.  `fault` names  *)
(* the storage call that fails, should this invocation reach it.  A panic  *)
(* unwinds with both mutex guards alive: the mutexes are poisoned, so the  *)
(* state is kept as it was at the panic and no later invocation gets past  *)
(* line 28.                                                                *)
(***************************************************************************)
\* What a panic in the callback leaves of the process.  cpal calls the
\* callback on its own thread: where the audio host starts that thread in
\* Rust (ALSA, WASAPI) the panic ends the thread and main sleeps on (lines
\* 74-76); where the host calls it from a C callback (CoreAudio) the
\* panic cannot unwind and the process aborts.
AfterPanic == {"running", "aborted"}

Callback(data, fault) ==
    /\ panicked = None
    /\ UNCHANGED <<cvars, svars, uvars>>
    /\ LET now     == clock
           loud    == is_loud(data)
           start   == loud /\ ~recording
           is_rec  == recording \/ loud
           bark    == last_bark_after(loud, last_bark_time, now)
           name    == filename(tz, boot + clock)
           no_dir  == start /\ fault = "create_dir_all"
           no_file == start /\ fault = "WavWriter::create"
           w       == IF start THEN Some(name) ELSE writer
           created == IF start THEN Put(files, name, << >>) ELSE files
           out     == IF is_rec /\ w # None THEN chunk_samples(data) ELSE << >>
           no_write == ~no_dir /\ ~no_file /\ out # << >> /\ fault = "write_sample"
           written == IF w = None THEN created
                      ELSE Put(created, w[1], created[w[1]] \o out)
           stop    == is_rec /\ bark # None /\ timed_out(bark[1], now)
           panics  == no_dir \/ no_file \/ no_write \/ (is_rec /\ bark = None)
       IN  /\ Len(out) + TotalSamples <= MaxSamples
           /\ process' \in (IF panics THEN AfterPanic ELSE {process})
           /\ chunk' = Some(data)
           /\ starts' = IF start /\ ~no_dir /\ ~no_file THEN Append(starts, now)
                                                        ELSE starts
           /\ io_error' = IF no_dir \/ no_file \/ no_write THEN fault ELSE "none"
           /\ last_loud' = IF loud THEN Some(now) ELSE last_loud
           /\ steady' = (steady /\ (loud /\ last_loud # None
                                      => now - last_loud[1] <= MIN_BARK_DURATION))
           /\ recording' = IF no_dir \/ no_file \/ no_write THEN is_rec
                           ELSE IF stop THEN FALSE ELSE is_rec
           /\ last_bark_time' = bark
           /\ IF no_dir \/ no_file
              THEN /\ panicked' = Some(fault)
                   /\ UNCHANGED <<writer, files, opened, closed>>
              ELSE /\ opened' = IF start THEN opened + 1 ELSE opened
                   /\ IF no_write
                      THEN /\ panicked' = Some(fault)
                           /\ writer' = w
                           /\ files' = created
                           /\ closed' = closed
                      ELSE IF is_rec /\ bark = None
                      THEN /\ panicked' = Some("last_bark.unwrap")
                           /\ writer' = w
                           /\ files' = written
                           /\ closed' = closed
                      ELSE /\ panicked' = None
                           /\ writer' = IF stop THEN writer_after_stop(w) ELSE w
                           /\ files' = written
                           /\ closed' = IF stop /\ w # None THEN closed + 1 ELSE closed
           /\ UNCHANGED <<tz, boot, clock>>

(***************************************************************************)
(* The codec on its own: a timestamp the recorder may read from            *)
(* Local::now(), the name main.rs gives its file, and what viewer.rs makes *)
(* of that name.                                                           *)
(***************************************************************************)
\* The days the timestamps are drawn from: the last day of a year, a leap
\* day, and the two days US/Eastern changes its clocks.
StampDays ==
    {<<2023, 12, 31>>, <<2024, 2, 29>>, <<2024, 3, 10>>, <<2024, 11, 3>>}

\* Minute and second of the timestamps drawn.
StampMinSecs == {<<0, 0>>, <<30, 0>>, <<59, 59>>}

\* Instants of UTC: every hour of each day, at each minute and second.
Stamps ==
    {Secs(Naive(d[1], d[2], d[3], h, ms[1], ms[2])) :
        d \in StampDays, h \in 0..23, ms \in StampMinSecs}

\* main.rs 39-40
Encode ==
    /\ encoded = None
    /\ encoded' = Some(filename(tz, stamp))
    /\ UNCHANGED <<stamp, decoded, input, stored, tz, rvars, svars, uvars>>

\* viewer.rs 96-101
Decode ==
    /\ encoded # None
    /\ decoded = None
    /\ decoded' = Some(DecodeName(tz, encoded[1]))
    /\ UNCHANGED <<stamp, encoded, input, stored, tz, rvars, svars, uvars>>

\* The samples converted on their own: from 1.5 below zero to 1.5 above,
\* in hundredths.
MaxSample == 150

Samples == (0 - MaxSample)..MaxSample

\* main.rs 57-59 on one sample of a chunk.
WriteSample ==
    /\ stored = None
    /\ stored' = Some(scaled_sample(input))
    /\ UNCHANGED <<stamp, encoded, decoded, input, tz, rvars, svars, uvars>>

\* The loop of line 56 goes on to another sample.
AnotherSample ==
    /\ stored # None
    /\ input' \in Samples
    /\ stored' = None
    /\ UNCHANGED <<stamp, encoded, decoded, tz, rvars, svars, uvars>>

\* BarkViewer::new up to line 114, with WalkDir yielding `listing`; a
\* directory that is missing yields one Err, which line 62 drops.
Scan(listing) ==
    LET r == ScanLoop(tz, IF exists THEN listing ELSE << >>)
    IN  /\ previous' = recordings
        /\ panic_at' = r.panic_at
        /\ IF r.panic_at # None
           THEN viewer' = "panicked" /\ recordings' = None
           ELSE viewer' = "ok" /\ recordings' = Some(sort_by_key(r.recs))
        /\ UNCHANGED <<exists, dir, tz, rvars, cvars, uvars>>

(***************************************************************************)
(* The viewer's frames, BarkViewer::update.  A frame handles the buttons   *)
(* (lines 169-189), then a scroll or a drag over the timeline (207-240),   *)
(* draws the time axis (297-345) and then handles the zoom slider          *)
(* (422-438).  Each action below is a frame with one input.                *)
(***************************************************************************)
\* The frames shown at most.
MaxFrames == 3

\* rect.width(): narrower than one label, two labels wide, ten labels wide.
Widths == {40, 160, 800}

\* Local::now() when the viewer starts: 10:00:00 and 00:00:00 of
\* 15 June 2024 in US/Eastern.
ViewNows == {Secs(Naive(2024, 6, 15, 14, 0, 0)), Secs(Naive(2024, 6, 15, 4, 0, 0))}

\* The time that passes in frames without input.
Elapsed == {0, Hour}

\* raw_scroll_delta.y of a Ctrl+scroll
ScrollDeltas == {-1, 1}

\* zoom_center, in quarters: the pointer in the middle and at the right end.
ZoomCenters == {2, 4}

\* total_delta / rect.width(), in quarters
PanDeltas == {-2, 1}

\* new_duration of the slider: its least and greatest value and an odd one.
SliderDurations == {360, 3601, 360000}

\* A file the recorder wrote at instant t, and its recording.
EntryAt(zone, t) == Entry("barks", filename(zone, t), TRUE)

RecordingAt(zone, t) == Recording(EntryAt(zone, t), t)

\* What the scan may have found: nothing, a recording of 25 hours ago,
\* that one and one of 30 minutes ago, one named for a time 2 hours ahead.
ViewRecordings(zone, now) ==
    { << >>,
      <<RecordingAt(zone, now - 25 * Hour)>>,
      <<RecordingAt(zone, now - 25 * Hour), RecordingAt(zone, now - 30 * 60)>>,
      <<RecordingAt(zone, now + 2 * Hour)>> }

\* One frame at `now`: the axis is drawn for the window `drawn`, and the
\* frame leaves the window `final`, unless drawing panics.
Frame(o, drawn, final, now) ==
    /\ viewer = "ok"
    /\ frames < MaxFrames
    /\ frames' = frames + 1
    /\ op' = o
    /\ before' = Window(timeline_start, timeline_end)
    /\ wall' = now
    /\ \E a \in draw_axis(drawn, rect_width) :
          /\ axis' = Some(a)
          /\ IF a.kind = "panic"
             THEN /\ viewer' = "panicked"
                  /\ timeline_start' = drawn.start
                  /\ timeline_end' = drawn.end
             ELSE /\ viewer' = "ok"
                  /\ timeline_start' = final.start
                  /\ timeline_end' = final.end
    /\ UNCHANGED <<rect_width, tz, exists, dir, recordings, previous, panic_at>>
    /\ UNCHANGED <<rvars, cvars, pvars, avars>>

Input(name, x, y) == [name |-> name, x |-> x, y |-> y]

\* Frames without input, `dt` seconds after the frame before.
Idle(dt) ==
    LET w == Window(timeline_start, timeline_end)
    IN  Frame(Input("none", 0, 0), w, w, wall + dt)

ResetView ==
    LET w == reset_view(recordings[1], wall)
    IN  Frame(Input("Reset View", 0, 0), w, w, wall)

LastHour ==
    LET w == last_hours(1, wall)
    IN  Frame(Input("Last Hour", 0, 0), w, w, wall)

Last24Hours ==
    LET w == last_hours(24, wall)
    IN  Frame(Input("Last 24 Hours", 0, 0), w, w, wall)

LastWeek ==
    LET w == last_hours(7 * 24, wall)
    IN  Frame(Input("Last Week", 0, 0), w, w, wall)

ScrollZoom(scroll_delta, zoom_center) ==
    LET w == scroll_zoom(timeline_start, timeline_end, scroll_delta, zoom_center)
    IN  Frame(Input("zoom", scroll_delta, zoom_center), w, w, wall)

Pan(total_delta) ==
    LET w == pan(timeline_start, timeline_end, total_delta, wall)
    IN  Frame(Input("pan", total_delta, 0), w, w, wall)

SliderZoom(new_duration) ==
    Frame(Input("slider", new_duration, 0),
          Window(timeline_start, timeline_end),
          slider_zoom(timeline_start, timeline_end, new_duration),
          wall)

(***************************************************************************)
(* The Play and Stop buttons of the recording list, lines 464-476, and a   *)
(* sink that comes to the end of its source.                               *)
(***************************************************************************)
\* The sinks made at most.
MaxSinks == 4

\* The recordings listed: three of 1 January 2024.
PlayRecordings(zone) ==
    <<RecordingAt(zone, Secs(Naive(2024, 1, 1, 12, 0, 0))),
      RecordingAt(zone, Secs(Naive(2024, 1, 1, 13, 0, 0))),
      RecordingAt(zone, Secs(Naive(2024, 1, 1, 14, 0, 0)))>>

\* What play_audio did: how it ended, and the sounding sink it stopped.
Played(outcome, cut) == [outcome |-> outcome, cut |-> cut]

\* Play of the i-th recording clicked: play_audio(&path), which ends as
\* `outcome` says.  Assigning current_playback drops the sink it held.
Play(i, outcome) ==
    /\ viewer = "ok"
    /\ outcome = "ok" => sinks < MaxSinks
    /\ LET path   == recordings[1][i].path
           held   == IF current_playback = None THEN {} ELSE {current_playback[1]}
           silent == stopped_first(sounding, current_playback)
           sink   == Sink(sinks + 1, path)
       IN  /\ play_result' = Played(outcome, sounding \cap held)
           /\ IF outcome = "ok"
              THEN /\ current_playback' = Some(sink)
                   /\ sounding' = (silent \ held) \cup {sink}
                   /\ sinks' = sinks + 1
                   /\ viewer' = "ok"
              ELSE /\ current_playback' = current_playback
                   /\ sounding' = silent
                   /\ sinks' = sinks
                   /\ viewer' = IF outcome = "Sink::try_new" THEN "panicked" ELSE "ok"
    /\ UNCHANGED <<tz, exists, dir, recordings, previous, panic_at>>
    /\ UNCHANGED <<rvars, cvars, wvars, avars>>

\* Stop clicked, lines 471-475; the button is there while current_playback
\* holds a sink.
Stop ==
    /\ viewer = "ok"
    /\ current_playback # None
    /\ sounding' = sounding \ {current_playback[1]}
    /\ current_playback' = None
    /\ play_result' = Played("Stop", sounding)
    /\ UNCHANGED <<sinks, tz, svars, rvars, cvars, wvars, avars>>

\* A sink plays its source to the end.
Finish(sink) ==
    /\ viewer = "ok"
    /\ sink \in sounding
    /\ sounding' = sounding \ {sink}
    /\ UNCHANGED <<current_playback, sinks, play_result, tz, svars, rvars, cvars, wvars, avars>>

(***************************************************************************)
(* The loudness summary of one file: computed when the scan loads the      *)
(* file (lines 72-94), and by Recording::analyze_audio.                    *)
(***************************************************************************)
\* The samples of a payload at most.
MaxLen == 4

\* The i16 samples files hold: the least and the greatest, and small ones.
StoredSamples == {I16_MIN, -1, 0, 2, I16_MAX}

Payloads == UNION {[1..n -> StoredSamples] : n \in 0..MaxLen}

\* Lines 72-94
LoadStats ==
    /\ opens
    /\ summary = None
    /\ summary' = Some(audio_stats(payload))
    /\ UNCHANGED <<payload, opens, analysis, tz, rvars, cvars, svars, wvars, pvars>>

\* Recording::analyze_audio
AnalyzeAudio ==
    /\ analysis = None
    /\ analysis' = Some(analyze_audio(opens, payload))
    /\ UNCHANGED <<payload, opens, summary, tz, rvars, cvars, svars, wvars, pvars>>

(***************************************************************************)
(* The specifications.  Each one runs one part of the program and holds    *)
(* the variables of the other parts at their initial values.               *)
(***************************************************************************)
IdleRecorder ==
    /\ boot = 0
    /\ clock = 0
    /\ recording = FALSE
    /\ last_bark_time = None
    /\ writer = None
    /\ files = << >>
    /\ panicked = None
    /\ process = "none"
    /\ starts = << >>
    /\ opened = 0
    /\ closed = 0
    /\ last_loud = None
    /\ steady = TRUE
    /\ chunk = None
    /\ io_error = "none"

IdleCodec ==
    /\ stamp = 0
    /\ encoded = None
    /\ decoded = None
    /\ input = 0
    /\ stored = None

IdleScan ==
    /\ exists = FALSE
    /\ dir = {}
    /\ viewer = "none"
    /\ recordings = None
    /\ previous = None
    /\ panic_at = None

IdleWindow ==
    /\ wall = 0
    /\ rect_width = 0
    /\ timeline_start = AtSecond(0)
    /\ timeline_end = AtSecond(0)
    /\ axis = None
    /\ frames = 0
    /\ op = [name |-> "none", x |-> 0, y |-> 0]
    /\ before = Window(AtSecond(0), AtSecond(0))

IdlePlayback ==
    /\ current_playback = None
    /\ sounding = {}
    /\ sinks = 0
    /\ play_result = [outcome |-> "none", cut |-> {}]

IdleAnalyzer ==
    /\ payload = << >>
    /\ opens = FALSE
    /\ summary = None
    /\ analysis = None

IdleViewer == IdleWindow /\ IdlePlayback /\ IdleAnalyzer

\* The recorder, on a machine in US/Eastern.
Init == InitRecorder /\ IdleCodec /\ IdleScan /\ IdleViewer

Next ==
    \/ Tick
    \/ Silence
    \/ \E data \in Chunks, fault \in Faults : Callback(data, fault)

Spec == Init /\ [][Next]_vars

\* The recorder, second by second, while the stream keeps calling the
\* callback and time keeps passing: cpal calls the callback for every
\* buffer the device fills (line 25), and Instant::now() (line 30) grows
\* between two calls.
NextLive ==
    \/ Tick
    \/ \E data \in Chunks, fault \in Faults : Callback(data, fault)

SpecLive ==
    /\ Init
    /\ [][NextLive]_vars
    /\ WF_vars(Tick)
    /\ WF_vars(\E data \in Chunks, fault \in Faults : Callback(data, fault))

\* The codec on its own.
InitCodec ==
    /\ tz \in Zones
    /\ stamp \in Stamps
    /\ encoded = None
    /\ decoded = None
    /\ input = 0
    /\ stored = None
    /\ IdleRecorder
    /\ IdleScan
    /\ IdleViewer

NextCodec == Encode \/ Decode

SpecCodec == InitCodec /\ [][NextCodec]_vars

\* The conversion of samples, main.rs 57-59, on every sample.
InitSample ==
    /\ tz = "UTC"
    /\ input \in Samples
    /\ stored = None
    /\ stamp = 0
    /\ encoded = None
    /\ decoded = None
    /\ IdleRecorder
    /\ IdleScan
    /\ IdleViewer

NextSample == WriteSample \/ AnotherSample

SpecSample == InitSample /\ [][NextSample]_vars

\* The viewer after BarkViewer::new, on a machine in US/Eastern: the scan
\* has returned and lines 116-127 have set the window.
InitView ==
    /\ tz = "US/Eastern"
    /\ wall \in ViewNows
    /\ rect_width \in Widths
    /\ \E recs \in ViewRecordings(tz, wall) :
          /\ recordings = Some(recs)
          /\ dir = {EntryAt(tz, recs[i].timestamp) : i \in 1..Len(recs)}
          /\ timeline_start = initial_timeline(tz, recs, wall).start
          /\ timeline_end = initial_timeline(tz, recs, wall).end
    /\ today_start(tz, wall).kind = "Single"
    /\ exists = TRUE
    /\ viewer = "ok"
    /\ previous = None
    /\ panic_at = None
    /\ axis = None
    /\ frames = 0
    /\ op = Input("new", 0, 0)
    /\ before = Window(timeline_start, timeline_end)
    /\ IdleRecorder
    /\ IdleCodec
    /\ IdlePlayback
    /\ IdleAnalyzer

NextView ==
    \/ \E dt \in Elapsed : Idle(dt)
    \/ ResetView
    \/ LastHour
    \/ Last24Hours
    \/ LastWeek
    \/ \E scroll_delta \in ScrollDeltas, zoom_center \in ZoomCenters :
          ScrollZoom(scroll_delta, zoom_center)
    \/ \E total_delta \in PanDeltas : Pan(total_delta)
    \/ \E new_duration \in SliderDurations : SliderZoom(new_duration)

SpecView == InitView /\ [][NextView]_vars

\* The viewer's playback, with three recordings listed.
InitPlay ==
    /\ tz \in Zones
    /\ recordings = Some(PlayRecordings(tz))
    /\ dir = {EntryAt(tz, recordings[1][i].timestamp) : i \in 1..Len(recordings[1])}
    /\ exists = TRUE
    /\ viewer = "ok"
    /\ previous = None
    /\ panic_at = None
    /\ current_playback = None
    /\ sounding = {}
    /\ sinks = 0
    /\ play_result = Played("none", {})
    /\ IdleRecorder
    /\ IdleCodec
    /\ IdleWindow
    /\ IdleAnalyzer

NextPlay ==
    \/ \E i \in 1..Len(recordings[1]), outcome \in PlayOutcomes : Play(i, outcome)
    \/ Stop
    \/ \E sink \in sounding : Finish(sink)

SpecPlay == InitPlay /\ [][NextPlay]_vars

\* The loudness summary of one file.
InitStats ==
    /\ tz = "UTC"
    /\ payload \in Payloads
    /\ opens \in BOOLEAN
    /\ summary = None
    /\ analysis = None
    /\ IdleRecorder
    /\ IdleCodec
    /\ IdleScan
    /\ IdleWindow
    /\ IdlePlayback

NextStats == LoadStats \/ AnalyzeAudio

SpecStats == InitStats /\ [][NextStats]_vars

\* The viewer's scan, started any number of times over one directory.
InitScan ==
    /\ tz \in Zones
    /\ exists \in BOOLEAN
    /\ dir \in Directories
    /\ exists \/ dir = {}
    /\ viewer = "none"
    /\ recordings = None
    /\ previous = None
    /\ panic_at = None
    /\ IdleRecorder
    /\ IdleCodec
    /\ IdleViewer

NextScan == \E listing \in Listings(dir) : Scan(listing)

SpecScan == InitScan /\ [][NextScan]_vars

(***************************************************************************)
(* The claims about the recorder, checked under Spec.  A callback step is  *)
(* a step that leaves the clock alone; chunk' is the chunk it processed.   *)
(***************************************************************************)
\* The peak absolute amplitude of a chunk, 0 for an empty one.
Peak(data) ==
    IF data = << >> THEN 0
    ELSE CHOOSE m \in {Abs(data[i]) : i \in 1..Len(data)} :
            \A i \in 1..Len(data) : Abs(data[i]) <= m

Loud(data) == Peak(data) > THRESHOLD

\* Every sample of a chunk, converted.
Converted(data) == [i \in 1..Len(data) |-> scaled_sample(data[i])]

\* C1: while no storage call fails, a stream whose loud chunks are never
\* more than the silence timeout apart is recorded as one event: one file
\* is opened, never a second one, it is closed at most once, it is closed
\* exactly when the detector is back in Idle, and the callback that sees
\* more than the timeout of silence closes it.
C1_OneEventPerBurst ==
    /\ [](panicked = None /\ steady /\ last_loud # None =>
            /\ opened = 1
            /\ Cardinality(DOMAIN files) = 1
            /\ closed = (IF recording THEN 0 ELSE 1))
    /\ [][clock' = clock /\ panicked' = None /\ steady' /\ last_loud' # None
            /\ clock - last_loud'[1] > MIN_BARK_DURATION
          => opened' = 1 /\ closed' = 1]_vars

\* C1's case: loud chunks at 0 and 4, silence after, and the one event closed.
C1_Witness ==
    /\ panicked = None
    /\ steady
    /\ DOMAIN files = {filename(tz, boot)}
    /\ last_loud = Some(4)
    /\ opened = 1
    /\ closed = 1

\* C2: a callback that starts in Active and returns leaves the detector in
\* Idle, with the file closed, if and only if more than the silence timeout
\* has passed since the latest above-threshold chunk (its own chunk
\* included); and it changes last_bark_time only if its chunk is loud.
C2_StopIffSilenceExceedsTimeout ==
    [][clock' = clock /\ recording /\ panicked' = None =>
        /\ ~recording' <=> clock - last_loud'[1] > MIN_BARK_DURATION
        /\ ~recording' => writer' = None /\ closed' = closed + 1
        /\ recording' => writer' = writer /\ closed' = closed
        /\ IF Loud(chunk'[1]) THEN last_bark_time' = Some(clock)
                              ELSE last_bark_time' = last_bark_time]_vars

\* C2's case: a quiet chunk, six seconds after the latest loud one, has
\* ended the event.
C2_Witness ==
    /\ panicked = None
    /\ chunk = Some(<<5>>)
    /\ last_loud # None
    /\ clock = last_loud[1] + MIN_BARK_DURATION + 1
    /\ ~recording
    /\ closed = 1

\* C3: a callback that starts in Idle and returns starts an event (Active,
\* one more file opened and held by the writer, last_bark_time = now) if
\* the peak of its chunk is above THRESHOLD, and otherwise changes nothing:
\* still Idle, no file opened, no sample written.
C3_StartIffAboveThreshold ==
    [][clock' = clock /\ ~recording /\ panicked' = None =>
        IF Loud(chunk'[1])
        THEN /\ recording'
             /\ opened' = opened + 1
             /\ writer' # None
             /\ writer'[1] \in DOMAIN files'
             /\ last_bark_time' = Some(clock)
        ELSE /\ ~recording'
             /\ UNCHANGED <<last_bark_time, writer, files, opened>>]_vars

\* C3's case: a chunk whose peak is a negative sample has started an event.
C3_Witness ==
    /\ panicked = None
    /\ recording
    /\ chunk = Some(<<-6, 0>>)
    /\ opened = 1
    /\ last_bark_time = Some(clock)
    /\ writer # None
    /\ files[writer[1]] = Converted(<<-6, 0>>)

\* C4: when write_sample has failed, the detector is back in Idle and the
\* callback still runs.
C4_WriteFailureDropsOnlyTheEvent ==
    io_error = "write_sample" => ~recording /\ panicked = None

\* C5: after every callback that returned, the writer is open exactly in
\* Active; every file opened but the open one has been closed; and the
\* step that leaves Active closes the file.
C5_SessionOnlyWhileActive ==
    /\ [](panicked = None =>
            /\ recording <=> writer # None
            /\ opened = closed + (IF writer = None THEN 0 ELSE 1))
    /\ [][recording /\ ~recording' => writer' = None /\ closed' = closed + 1]_vars

\* C5's case: one event closed and the next one open.
C5_Witness ==
    /\ panicked = None
    /\ recording
    /\ writer # None
    /\ opened = 2
    /\ closed = 1

\* C6: a callback that returns with the detector Active at its writes
\* appends every sample of its chunk, in order, to the event's file.
C6_WholeChunkAppended ==
    [][clock' = clock /\ panicked' = None /\ (recording \/ Loud(chunk'[1])) =>
        IF recording
        THEN files'[writer[1]] = files[writer[1]] \o Converted(chunk'[1])
        ELSE \E n \in DOMAIN files' : files'[n] = Converted(chunk'[1])]_vars

\* What the code does instead: the first samples_per_chunk samples.
C6_FirstSamplesAppended ==
    [][clock' = clock /\ panicked' = None /\ (recording \/ Loud(chunk'[1])) =>
        LET d == SubSeq(chunk'[1], 1, Min(Len(chunk'[1]), samples_per_chunk))
        IN  IF recording
            THEN files'[writer[1]] = files[writer[1]] \o Converted(d)
            ELSE \E n \in DOMAIN files' : files'[n] = Converted(d)]_vars

(***************************************************************************)
(* The claim about the codec, checked under SpecCodec.                     *)
(***************************************************************************)
\* C7: the name made from a timestamp decodes to that timestamp.
C7_RoundTrip ==
    decoded # None => decoded[1] = [kind |-> "ok", at |-> {stamp}]

\* What holds of the code: the fields of the local time, the hour of the
\* 12-hour clock with its marker among them, come back as they were
\* written; and the timestamp comes back where the zone keeps one offset.
RoundTripOfLocalTime ==
    encoded # None =>
        /\ parse_from_str(FormatTimestamp(NaiveLocal(tz, stamp))) = Some(NaiveLocal(tz, stamp))
        /\ tz = "UTC" /\ decoded # None => decoded[1] = [kind |-> "ok", at |-> {stamp}]

(***************************************************************************)
(* The claims about the scan, checked under SpecScan.                      *)
(***************************************************************************)
\* A name that keeps the contract: "bark_", a timestamp that is a date and
\* a time of day which the zone's clocks show, ".wav".
WellFormed(zone, name) ==
    /\ StartsWith(name, bark_)
    /\ EndsWith(name, dot_wav)
    /\ Len(name) >= Len(bark_) + Len(dot_wav)
    /\ LET p == parse_from_str(SubSeq(name, Len(bark_) + 1, Len(name) - Len(dot_wav)))
       IN  p # None /\ LocalCandidates(zone, p[1]) # {}

\* A file the scan is to list: a well-formed name and a payload that opens.
Qualifies(zone, e) == WellFormed(zone, e.name) /\ e.readable

PathOf(e) == <<e.folder, e.name>>

Paths(recs) == {recs[i].path : i \in 1..Len(recs)}

\* C8: a file whose name is not well-formed is not in the result and is
\* never the entry a scan aborts on, and a scan that returns lists every
\* qualifying file.
C8_MalformedNamesNeverAbort ==
    /\ \A e \in dir : ~WellFormed(tz, e.name) =>
            /\ panic_at # Some(e)
            /\ recordings # None => PathOf(e) \notin Paths(recordings[1])
    /\ recordings # None =>
            \A e \in dir : Qualifies(tz, e) => PathOf(e) \in Paths(recordings[1])

\* C9: the result of a scan that returns is in ascending order of
\* timestamp and holds one entry for each qualifying file, with the file's
\* timestamp, and no other entry, also when files share a timestamp; and
\* the scan of an empty or missing directory returns the empty result.
C9_SortedOnePerFile ==
    /\ recordings # None =>
        LET rs == recordings[1]
        IN  /\ \A i, j \in 1..Len(rs) : i < j => rs[i].timestamp <= rs[j].timestamp
            /\ \A e \in dir : Qualifies(tz, e) =>
                   /\ Cardinality({i \in 1..Len(rs) : rs[i].path = PathOf(e)}) = 1
                   /\ \A i \in 1..Len(rs) : rs[i].path = PathOf(e) =>
                          rs[i].timestamp \in LocalCandidates(tz,
                              parse_from_str(SubSeq(e.name, Len(bark_) + 1,
                                                    Len(e.name) - Len(dot_wav)))[1])
            /\ Len(rs) = Cardinality({e \in dir : Qualifies(tz, e)})
    /\ viewer # "none" /\ dir = {} => recordings = Some(<< >>)

\* C9's case: three files listed in order, the later two with one timestamp.
C9_Witness ==
    /\ recordings # None
    /\ Len(recordings[1]) = 3
    /\ recordings[1][1].timestamp < recordings[1][2].timestamp
    /\ recordings[1][2].timestamp = recordings[1][3].timestamp
    /\ recordings[1][2].path # recordings[1][3].path

\* C10: two scans of the directory return the same sequence.
C10_SameSequenceEveryScan ==
    recordings # None /\ previous # None => recordings = previous

\* What holds of the code: two scans return the same recordings, in an
\* order that differs at most among recordings of one timestamp.
SameRecordingsEveryScan ==
    recordings # None /\ previous # None =>
        /\ Len(recordings[1]) = Len(previous[1])
        /\ Paths(recordings[1]) = Paths(previous[1])
        /\ \A i \in 1..Len(recordings[1]) :
               recordings[1][i].timestamp = previous[1][i].timestamp

\* C11: a scan that returns lists every file whose name is well-formed,
\* also one whose payload hound::WavReader::open cannot read.
C11_UnreadablePayloadStillListed ==
    recordings # None =>
        \A e \in dir : WellFormed(tz, e.name) => PathOf(e) \in Paths(recordings[1])

\* What holds of the code: a file whose payload does not open is in no result.
UnreadablePayloadNeverListed ==
    recordings # None =>
        \A e \in dir : ~e.readable => PathOf(e) \notin Paths(recordings[1])

(***************************************************************************)
(* The claims about the viewer's window, checked under SpecView.  `op` is  *)
(* the input of the latest frame and `before` the window it started with.  *)
(***************************************************************************)
\* C12: the window has timeline_start < timeline_end in every state, and
\* a frame that starts with an ordered window leaves an ordered one.
C12_WindowOrdered == Before(timeline_start, timeline_end)

\* What holds of the code: the presets "Last Hour", "Last 24 Hours" and
\* "Last Week" and the slider leave an ordered window.
OrderedAfterLastAndSlider ==
    viewer = "ok" /\ op.name \in {"Last Hour", "Last 24 Hours", "Last Week", "slider"}
        => Before(timeline_start, timeline_end)

\* The window an operation left is not ordered although the one it
\* started with was.
OrderLostByOperation ==
    /\ frames > 0
    /\ Before(before.start, before.end)
    /\ ~Before(timeline_start, timeline_end)

\* C13: after a Ctrl+scroll zoom by factor f with the pointer at fraction
\* p of the window, the duration is f times the old one, to the second,
\* and the instant that was at fraction p of the old window is at
\* fraction p of the new one, to the second.  Durations are in half
\* seconds, p in quarters and f a fraction f[1] / f[2].
C13_ZoomKeepsPivot ==
    op.name = "zoom" =>
        LET f     == zoom_factor(op.x)
            p     == op.y
            old   == HalvesBetween(before.start, before.end)
            new   == HalvesBetween(timeline_start, timeline_end)
            shift == HalvesBetween(before.start, timeline_start)
        IN  /\ Abs(new * f[2] - old * f[1]) <= 2 * f[2]
            /\ Abs(4 * shift + p * new - p * old) <= 2 * 4

\* What holds of the code: the new window has f times the whole seconds
\* of the old one, rounded toward zero, and its middle is the old
\* timeline_start, moved by a hundredth of the old duration when the
\* pointer is at the right end.
ZoomIsAroundTheStart ==
    op.name = "zoom" =>
        LET f     == zoom_factor(op.x)
            width == timestamp(before.end) - timestamp(before.start)
            nd    == TruncDiv(width * f[1], f[2])
            mid   == PlusSeconds(before.start,
                                 IF op.y >= 4 THEN TruncDiv(width, 100) ELSE 0)
        IN  /\ HalvesBetween(timeline_start, timeline_end) = 2 * nd
            /\ HalvesBetween(timeline_start, mid) = nd

\* C14: a pan moves timeline_start and timeline_end by the same number
\* of seconds, the one lines 233-235 compute from the scroll or drag, so
\* the duration of the window is as before; neither bound is held back by
\* the present time or by the recordings.
C14_PanShiftsBothBounds ==
    op.name = "pan" =>
        LET d == pan_duration(before.start, before.end, op.x)
        IN  /\ timeline_start = PlusSeconds(before.start, d)
            /\ timeline_end = PlusSeconds(before.end, d)
            /\ HalvesBetween(timeline_start, timeline_end)
                   = HalvesBetween(before.start, before.end)

\* C14's case: a window that ended at the present time has been panned
\* into the future, away from every recording.
C14_Witness ==
    /\ op.name = "pan"
    /\ recordings # None /\ recordings[1] # << >>
    /\ before.end = AtSecond(wall)
    /\ Before(before.start, before.end)
    /\ Before(AtSecond(wall), timeline_end)
    /\ \A i \in 1..Len(recordings[1]) :
           Before(AtSecond(recordings[1][i].timestamp), timeline_start)

\* C15: a frame draws at most max_labels = floor(rect.width() / 80)
\* markers of the time axis within the window.
C15_MarkersFitTheWidth ==
    axis # None => Cardinality(axis[1].markers) <= max_labels(rect_width)

\* What holds of the code: one marker more at most, which is drawn when
\* both ends of the window are on a marker.
AtMostOneMarkerTooMany ==
    axis # None => Cardinality(axis[1].markers) <= max_labels(rect_width) + 1

\* C16: the interval a frame computes is a multiple of 15 minutes and at
\* least 15 minutes, whatever the duration and the width.
C16_IntervalIsMultipleOf15 ==
    axis # None =>
        /\ axis[1].kind = "ok"
        /\ axis[1].interval >= 15
        /\ axis[1].interval % 15 = 0

\* What holds of the code: the same, for a painter at least one label wide.
IntervalIsMultipleOf15IfOneLabelFits ==
    axis # None /\ max_labels(rect_width) > 0 =>
        /\ axis[1].kind = "ok"
        /\ axis[1].interval >= 15
        /\ axis[1].interval % 15 = 0

\* The recordings of the calendar day of `now`, by their indices.
OfToday(zone, recs, now) ==
    {i \in 1..Len(recs) : date_naive(zone, recs[i].timestamp) = date_naive(zone, now)}

\* The default view with a lead-in of `margin` seconds.
DefaultView(zone, recs, now, margin) ==
    LET today == OfToday(zone, recs, now)
        first == CHOOSE i \in today : \A j \in today : recs[i].timestamp <= recs[j].timestamp
    IN  Window(IF today # {} THEN AtSecond(recs[first].timestamp - margin)
               ELSE AtSecond(now - 24 * Hour),
               AtSecond(now))

\* C17: the window at startup and the window Reset View leaves are the
\* default view: from the earliest recording of today, less the lead-in
\* (the 20 minutes of line 125), or from 24 hours ago when today has no
\* recording, to now.
C17_DefaultViewAtStartupAndReset ==
    op.name \in {"new", "Reset View"} =>
        Window(timeline_start, timeline_end) = DefaultView(tz, recordings[1], wall, 20 * 60)

\* What holds of the code: Reset View starts the window 24 hours ago when
\* there is no recording at all, and the startup window starts 20 minutes
\* before the first recording of today when there is one.
DefaultViewWhereTheCodeAgrees ==
    /\ op.name = "Reset View" /\ recordings[1] = << >> =>
           Window(timeline_start, timeline_end) = DefaultView(tz, << >>, wall, 0)
    /\ op.name = "new" /\ OfToday(tz, recordings[1], wall) # {} =>
           Window(timeline_start, timeline_end) = DefaultView(tz, recordings[1], wall, 20 * 60)

(***************************************************************************)
(* The claim about playback, checked under SpecPlay.                       *)
(***************************************************************************)
\* C18: at most one sink is making sound, and it is the one
\* current_playback holds; a play_audio that did not get to play its file
\* has left no sink sounding, the one that was playing included.
C18_SingleSlotPlayback ==
    /\ Cardinality(sounding) <= 1
    /\ current_playback = None => sounding = {}
    /\ current_playback # None => sounding \subseteq {current_playback[1]}
    /\ play_result.outcome \in PlayOutcomes \ {"ok"} => sounding = {}

\* C18's case: Play was clicked while a recording was playing, the new
\* file did not open, and nothing is playing.
C18_Witness ==
    /\ play_result.outcome = "File::open"
    /\ play_result.cut # {}
    /\ current_playback # None
    /\ sounding = {}

\* C18's other case: the third sink plays, alone, in place of a sounding one.
C18_Replaced ==
    /\ play_result.outcome = "ok"
    /\ play_result.cut # {}
    /\ sinks = 3
    /\ sounding = {current_playback[1]}

(***************************************************************************)
(* The claims about the loudness summary, checked under SpecStats.  A      *)
(* summary is Some(Some(<<min, q1, median, q3, max>>)) or Some(None) once  *)
(* it is computed.                                                         *)
(***************************************************************************)
Ascending(s) == \A i, j \in 1..Len(s) : i <= j => s[i] <= s[j]

\* C19: the summary of a payload that is not empty has
\* min <= q1 <= median <= q3 <= max, its min and max are the least and the
\* greatest amplitude of the payload, the five indices are within the
\* sorted samples, and an empty payload has no summary; analyze_audio
\* gives the same.
C19_SummaryIsMonotone ==
    /\ \A i \in 1..5 : payload # << >> =>
           quartile_indices(Len(payload))[i] \in 0..(Len(payload) - 1)
    /\ \A r \in {summary, IF opens THEN analysis ELSE None} :
           r # None =>
               IF payload = << >> THEN r[1] = None
               ELSE /\ r[1] # None
                    /\ Ascending(r[1][1])
                    /\ \A i \in 1..Len(payload) :
                           r[1][1][1] <= amplitude(payload[i])
                               /\ amplitude(payload[i]) <= r[1][1][5]

\* C19's case: three samples whose amplitudes are in descending order in
\* the file, summarized.
C19_Witness ==
    /\ payload = <<I16_MIN, 2, -1>>
    /\ summary = Some(Some(<<1, 1, 2, I16_MAX + 1, I16_MAX + 1>>))

\* C20: every value of a summary is in [0, 1]: as a numerator over
\* i16::MAX, in 0..I16_MAX.
C20_SummaryWithinUnitRange ==
    summary # None /\ summary[1] # None =>
        \A i \in 1..5 : 0 <= summary[1][1][i] /\ summary[1][1][i] <= I16_MAX

\* What holds of the code: no value is above 32768 / 32767, and one is
\* above 1 only if the payload holds the sample -32768.
SummaryAboveOneOnlyForI16Min ==
    summary # None /\ summary[1] # None =>
        \A i \in 1..5 :
            /\ 0 <= summary[1][1][i] /\ summary[1][1][i] <= I16_MAX + 1
            /\ summary[1][1][i] > I16_MAX => \E k \in 1..Len(payload) : payload[k] = I16_MIN

(***************************************************************************)
(* More claims about the recorder, checked under Spec.                     *)
(***************************************************************************)
\* The start of an event has failed at the directory or at the file.
StorageFailed ==
    panicked \in {Some("create_dir_all"), Some("WavWriter::create")}

NothingRecordedAfterStorageFailure ==
    [][StorageFailed
          => (UNCHANGED <<recording, last_bark_time, writer, files,
                          opened, closed, chunk, process>>)]_vars

\* The process is still running after the directory could not be made.
StillRunningAfterStorageFailure ==
    /\ panicked = Some("create_dir_all")
    /\ process = "running"
    /\ clock > last_bark_time[1]

(***************************************************************************)
(* The claim about the conversion of a sample, checked under SpecSample.   *)
(***************************************************************************)
\* x / 100 rounded to the nearest integer, halves away from zero, as f32's
\* round does.
RoundDiv100(x) ==
    IF x >= 0 THEN (2 * x + 100) \div 200 ELSE 0 - ((2 * (0 - x) + 100) \div 200)

\* v clamped to the range of i16.
ClampI16(v) == IF v > I16_MAX THEN I16_MAX ELSE IF v < I16_MIN THEN I16_MIN ELSE v

\* C22: the integer stored for a sample s is round(s * 32767) clamped to
\* the range of i16, also for s outside [-1, 1]: s * 32767 is rounded to
\* the nearest integer and not truncated toward zero.
C22_StoredSampleIsRounded ==
    stored # None => stored[1] = ClampI16(RoundDiv100(input * I16_MAX))

\* What holds of the code: the integer stored is s * 32767 with its
\* fraction dropped, clamped to the range of i16; it is the rounded value
\* or the integer next to it on the side of zero.
StoredSampleIsTruncated ==
    stored # None =>
        LET x == input * I16_MAX
            r == ClampI16(RoundDiv100(x))
        IN  /\ stored[1] \in I16_MIN..I16_MAX
            /\ Abs(stored[1]) * 100 <= Abs(x)
            /\ \/ Abs(x) - Abs(stored[1]) * 100 < 100
               \/ stored[1] \in {I16_MIN, I16_MAX}
            /\ Abs(stored[1]) \in {Abs(r), Abs(r) - 1}

\* A sample of 0.01 is stored as 327, and 327.67 rounds to 328.
TruncatedBelowTheRoundedValue ==
    /\ input = 1
    /\ stored = Some(327)
    /\ RoundDiv100(input * I16_MAX) = 328

(***************************************************************************)
(* More claims about the recorder's state, checked under Spec.             *)
(***************************************************************************)
\* C23: in every state the callbacks reach, recording implies that
\* last_bark_time is Some, so last_bark.unwrap() on line 63 never panics;
\* the two are set in the same callback, under both locks: the step that
\* sets recording sets last_bark_time to its `now`, no step outside a
\* callback changes either, and last_bark_time, once Some, stays Some.
C23_ActiveHasLastBark ==
    /\ [](recording => last_bark_time # None)
    /\ [](panicked # Some("last_bark.unwrap"))
    /\ [][(~recording /\ recording') => last_bark_time' = Some(clock')]_vars
    /\ [][(clock' # clock) => UNCHANGED <<recording, last_bark_time>>]_vars
    /\ [][(last_bark_time # None) => last_bark_time' # None]_vars

\* C23's case: a quiet chunk, five seconds after the loud one that started
\* the event, went through the timeout check of line 63 and the event goes on.
C23_Witness ==
    /\ panicked = None
    /\ recording
    /\ chunk = Some(<< >>)
    /\ opened = 1
    /\ last_bark_time # None
    /\ clock = last_bark_time[1] + MIN_BARK_DURATION

\* The file name lines 39-40 gave the i-th event.
NameOfEvent(i) == filename(tz, boot + starts[i])

DistinctFilesUnderOneOffset ==
    /\ \A i \in 1..(Len(starts) - 1) : starts[i + 1] - starts[i] > MIN_BARK_DURATION
    /\ \A i, j \in 1..Len(starts) :
           i # j /\ UtcOffset(tz, boot + starts[i]) = UtcOffset(tz, boot + starts[j])
               => NameOfEvent(i) # NameOfEvent(j)
    /\ Cardinality(DOMAIN files) = Cardinality({NameOfEvent(i) : i \in 1..Len(starts)})

\* Two events, one hour apart across the end of daylight saving time, and
\* one file: the second was created over the first.
SecondEventOverwroteTheFirst ==
    /\ Len(starts) = 2
    /\ starts[2] - starts[1] = Hour
    /\ NameOfEvent(1) = NameOfEvent(2)
    /\ Cardinality(DOMAIN files) = 1
    /\ panicked = None

\* Two events in one run, each with its own file.
TwoEventsTwoFiles ==
    /\ Len(starts) = 2
    /\ Cardinality(DOMAIN files) = 2
    /\ closed = 1
    /\ recording

(***************************************************************************)
(* The claim about the end of an event, checked under SpecLive.            *)
(***************************************************************************)
\* The latest loud chunk came early enough for the model's clock to get
\* past the timeout, before or after the long silence.
EndsInTime ==
    /\ last_loud # None
    /\ (last_loud[1] % IdleSpan) + MIN_BARK_DURATION < MaxTime

\* C25: while callbacks keep coming and time keeps passing, an event with
\* no loud chunk after its latest one ends: the recorder is not recording
\* and the writer is closed (or the callback has panicked at a storage
\* call, or a later loud chunk has come too late for the clock of the
\* model).  The end comes in a callback only: a step in which time passes
\* changes neither recording nor the writer.
C25_EventEventuallyEnds ==
    /\ (recording /\ panicked = None /\ EndsInTime)
           ~> \/ ~recording /\ writer = None /\ closed = opened
              \/ panicked # None
              \/ ~EndsInTime
    /\ [][(clock' # clock) => UNCHANGED <<recording, writer, closed, files>>]_vars

\* C25's case: the timeout passed between two chunks, and the event ended
\* only at the next chunk, eight seconds after the loud one.
C25_Witness ==
    /\ panicked = None
    /\ ~recording
    /\ writer = None
    /\ closed = 1
    /\ opened = 1
    /\ chunk = Some(<< >>)
    /\ last_loud # None
    /\ clock = last_loud[1] + MIN_BARK_DURATION + 3

=============================================================================
